---- MODULE Spec2Model ----
(***************************************************************************)
(* A model of src/kittautomation.py (and, in the scheduler section, of the *)
(* capture scheduler of src/screenshotagent.py): the descriptor generator  *)
(* (create_country_files), the pipeline registrar (update_pipeline), the   *)
(* backup store (backup_file / write_yaml) and rollback, driven by the     *)
(* command line of main().                                                 *)
(*                                                                         *)
(* Strings that the code searches or rewrites are sequences of tokens:     *)
(* a file name "kitt.us-wm.primary.yml" is <<"kitt","us-wm","primary",     *)
(* "yml">> (the tokens between the dots), a host name likewise.  The       *)
(* markers "cell000" and "us-wm" are whole tokens, so str.replace and the  *)
(* substring tests of the code act token by token.                         *)
(*                                                                         *)
(* A YAML document is a tree of records:                                   *)
(*   [t |-> "str", s |-> tokens]                 a scalar                  *)
(*   [t |-> "seq", flow |-> BOOLEAN, e |-> <<nodes>>]   a sequence         *)
(*   [t |-> "map", e |-> <<[k |-> key, v |-> node], ...>>]  a mapping      *)
(*   [t |-> "int", i |-> number]                 a number                  *)
(* A file's content is the tree that yaml.load returns for it; yaml.dump   *)
(* followed by yaml.load is the library's business and is not modelled.    *)
(*                                                                         *)
(* Four specifications share the state: Spec (the command line on          *)
(* well-formed repositories), FaultSpec (the command line on repositories  *)
(* where a template or a backup entry fails), UnitSpec (the fix functions  *)
(* and discover_templates called on their own) and SchedSpec (the threads  *)
(* of the screenshot agent that start, stop and run the capture loop).     *)
(***************************************************************************)
EXTENDS Integers, Sequences, FiniteSets, TLC

\* ------------------------------------------------------------------ bounds
\* Number of command-line invocations (runs and rollbacks) in a behaviour.
MaxOps == 3

\* Number of file names in a directory listing handed to discover_templates.
MaxListing == 3

\* Number of start_scheduler calls that get past the schedule_running test.
MaxStarts == 3

\* int(interval * 10): the 0.1 s slices the loop sleeps between captures.
Slices == 2

\* ------------------------------------------------------------- constants
BACKUP_DIR == ".kitt-backup"

\* ------------------------------------------------------------ sequences
\* str.replace(old, new) for a one-token old and a one-token new
Replace(s, old, new) == [i \in 1..Len(s) |-> IF s[i] = old THEN new ELSE s[i]]

\* old in s, for a one-token old
Contains(s, old) == \E i \in 1..Len(s) : s[i] = old

\* "a.b" in s, for two adjacent tokens
ContainsPair(s, a, b) == \E i \in 1..(Len(s) - 1) : s[i] = a /\ s[i + 1] = b

\* ---------------------------------------------------------- document tree
Str(s) == [t |-> "str", s |-> s]
FlowSeq(e) == [t |-> "seq", flow |-> TRUE, e |-> e]
BlockSeq(e) == [t |-> "seq", flow |-> FALSE, e |-> e]
Map(e) == [t |-> "map", e |-> e]
Entry(k, v) == [k |-> k, v |-> v]
Num(i) == [t |-> "int", i |-> i]

HasKey(m, k) == \E i \in 1..Len(m.e) : m.e[i].k = k
KeyIndex(m, k) == CHOOSE i \in 1..Len(m.e) : m.e[i].k = k
Get(m, k) == m.e[KeyIndex(m, k)].v
Put(m, k, v) == [m EXCEPT !.e[KeyIndex(m, k)].v = v]

\* record_change: one entry of CHANGE_REPORT
record_change(file, field, old, new) ==
    [file |-> file, field |-> field, old |-> old, new |-> new]

\* The result of a fix: the rewritten node, the change records in order,
\* and whether the call returned or raised an exception.
Fixed(n, ch) == [n |-> n, ch |-> ch, raised |-> FALSE]
Raised(n, ch) == [n |-> n, ch |-> ch, raised |-> TRUE]

\* change records ch, then whatever the rest of a loop does
Then(ch, rest) == [rest EXCEPT !.ch = ch \o @]

RECURSIVE fix_cluster_id(_, _, _)
RECURSIVE fix_cluster_id_items(_, _, _, _)
RECURSIVE fix_cluster_id_elems(_, _, _, _)

\* the loop over node.items() from entry i on
fix_cluster_id_items(node, i, cluster_id, file) ==
    IF i > Len(node.e) THEN Fixed(node, <<>>)
    ELSE LET k == node.e[i].k
             v == node.e[i].v
         IN  IF k = "cluster_id"
             THEN LET seq == FlowSeq(<<Str(cluster_id)>>)
                      rest == fix_cluster_id_items(
                                  [node EXCEPT !.e[i].v = seq], i + 1, cluster_id, file)
                  IN  Fixed(rest.n,
                            <<record_change(file, "cluster_id", v, seq)>> \o rest.ch)
             ELSE LET sub == fix_cluster_id(v, cluster_id, file)
                      rest == fix_cluster_id_items(
                                  [node EXCEPT !.e[i].v = sub.n], i + 1, cluster_id, file)
                  IN  Fixed(rest.n, sub.ch \o rest.ch)

\* the loop over the elements of a list from element i on
fix_cluster_id_elems(node, i, cluster_id, file) ==
    IF i > Len(node.e) THEN Fixed(node, <<>>)
    ELSE LET sub == fix_cluster_id(node.e[i], cluster_id, file)
             rest == fix_cluster_id_elems(
                         [node EXCEPT !.e[i] = sub.n], i + 1, cluster_id, file)
         IN  Fixed(rest.n, sub.ch \o rest.ch)

fix_cluster_id(node, cluster_id, file) ==
    IF node.t = "map" THEN fix_cluster_id_items(node, 1, cluster_id, file)
    ELSE IF node.t = "seq" THEN fix_cluster_id_elems(node, 1, cluster_id, file)
    ELSE Fixed(node, <<>>)

RECURSIVE fix_namespace(_, _, _)
RECURSIVE fix_namespace_items(_, _, _, _)
RECURSIVE fix_namespace_elems(_, _, _, _)

fix_namespace_items(node, i, namespace, file) ==
    IF i > Len(node.e) THEN Fixed(node, <<>>)
    ELSE LET k == node.e[i].k
             v == node.e[i].v
         IN  IF k = "namespace"
             THEN LET new == Str(namespace)
                      rest == fix_namespace_items(
                                  [node EXCEPT !.e[i].v = new], i + 1, namespace, file)
                  IN  Fixed(rest.n,
                            <<record_change(file, "namespace", v, new)>> \o rest.ch)
             ELSE LET sub == fix_namespace(v, namespace, file)
                      rest == fix_namespace_items(
                                  [node EXCEPT !.e[i].v = sub.n], i + 1, namespace, file)
                  IN  Fixed(rest.n, sub.ch \o rest.ch)

fix_namespace_elems(node, i, namespace, file) ==
    IF i > Len(node.e) THEN Fixed(node, <<>>)
    ELSE LET sub == fix_namespace(node.e[i], namespace, file)
             rest == fix_namespace_elems(
                         [node EXCEPT !.e[i] = sub.n], i + 1, namespace, file)
         IN  Fixed(rest.n, sub.ch \o rest.ch)

fix_namespace(node, namespace, file) ==
    IF node.t = "map" THEN fix_namespace_items(node, 1, namespace, file)
    ELSE IF node.t = "seq" THEN fix_namespace_elems(node, 1, namespace, file)
    ELSE Fixed(node, <<>>)

RECURSIVE fix_country(_, _, _)
RECURSIVE fix_country_items(_, _, _, _)
RECURSIVE fix_country_elems(_, _, _, _)

\* A matched "labels" entry is rewritten and then walked like any other
\* value (line 98 is outside the if).
fix_country_items(node, i, country, file) ==
    IF i > Len(node.e) THEN Fixed(node, <<>>)
    ELSE LET k == node.e[i].k
             v == node.e[i].v
             hit == k = "labels" /\ v.t = "map" /\ HasKey(v, "ccm.country")
             v1 == IF hit THEN Put(v, "ccm.country", Str(<<country>>)) ELSE v
             ch1 == IF hit
                    THEN <<record_change(file, "ccm.country",
                                         Get(v, "ccm.country"), Str(<<country>>))>>
                    ELSE <<>>
             sub == fix_country(v1, country, file)
             rest == fix_country_items(
                         [node EXCEPT !.e[i].v = sub.n], i + 1, country, file)
         IN  Fixed(rest.n, ch1 \o sub.ch \o rest.ch)

fix_country_elems(node, i, country, file) ==
    IF i > Len(node.e) THEN Fixed(node, <<>>)
    ELSE LET sub == fix_country(node.e[i], country, file)
             rest == fix_country_elems(
                         [node EXCEPT !.e[i] = sub.n], i + 1, country, file)
         IN  Fixed(rest.n, sub.ch \o rest.ch)

fix_country(node, country, file) ==
    IF node.t = "map" THEN fix_country_items(node, 1, country, file)
    ELSE IF node.t = "seq" THEN fix_country_elems(node, 1, country, file)
    ELSE Fixed(node, <<>>)

RECURSIVE fix_cnames(_, _, _)
RECURSIVE fix_cnames_items(_, _, _, _)
RECURSIVE fix_cnames_elems(_, _, _, _)
RECURSIVE fix_cnames_list(_, _, _, _)

\* "cell000" in c: a substring test on a string, a membership test on a
\* list, a key test on a mapping; a number is not iterable (TypeError).
in_raises(c) == c.t \notin {"str", "seq", "map"}

cell000_in(c) ==
    IF c.t = "str" THEN Contains(c.s, "cell000")
    ELSE IF c.t = "seq" THEN \E i \in 1..Len(c.e) : c.e[i] = Str(<<"cell000">>)
    ELSE HasKey(c, "cell000")

\* the loop with v[idx] = country
fix_cnames_list_whole(v, idx, country, file) ==
    IF idx > Len(v.e) THEN Fixed(v, <<>>)
    ELSE LET c == v.e[idx]
             new == Str(<<country>>)
         IN  IF in_raises(c) THEN Raised(v, <<>>)
             ELSE IF ~cell000_in(c) THEN fix_cnames_list(v, idx + 1, country, file)
             ELSE IF c.t # "str" THEN Raised(v, <<>>)
             ELSE Then(<<record_change(file, "cnames", c, new)>>,
                       fix_cnames_list([v EXCEPT !.e[idx] = new], idx + 1, country, file))

\* the loop "for idx, c in enumerate(v)" of a matched cnames list; only a
\* string has a replace method (AttributeError otherwise)
fix_cnames_list(v, idx, country, file) ==
    IF idx > Len(v.e) THEN Fixed(v, <<>>)
    ELSE LET c == v.e[idx]
             new == Str(Replace(c.s, "cell000", country))
         IN  IF in_raises(c) THEN Raised(v, <<>>)
             ELSE IF ~cell000_in(c) THEN fix_cnames_list(v, idx + 1, country, file)
             ELSE IF c.t # "str" THEN Raised(v, <<>>)
             ELSE Then(<<record_change(file, "cnames", c, new)>>,
                       fix_cnames_list([v EXCEPT !.e[idx] = new], idx + 1, country, file))

fix_cnames_items(node, i, country, file) ==
    IF i > Len(node.e) THEN Fixed(node, <<>>)
    ELSE LET k == node.e[i].k
             v == node.e[i].v
             sub == IF k = "cnames" /\ v.t = "seq"
                    THEN fix_cnames_list(v, 1, country, file)
                    ELSE fix_cnames(v, country, file)
         IN  IF sub.raised THEN Raised([node EXCEPT !.e[i].v = sub.n], sub.ch)
             ELSE Then(sub.ch,
                       fix_cnames_items([node EXCEPT !.e[i].v = sub.n],
                                        i + 1, country, file))

fix_cnames_elems(node, i, country, file) ==
    IF i > Len(node.e) THEN Fixed(node, <<>>)
    ELSE LET sub == fix_cnames(node.e[i], country, file)
         IN  IF sub.raised THEN Raised([node EXCEPT !.e[i] = sub.n], sub.ch)
             ELSE Then(sub.ch,
                       fix_cnames_elems([node EXCEPT !.e[i] = sub.n],
                                        i + 1, country, file))

fix_cnames(node, country, file) ==
    IF node.t = "map" THEN fix_cnames_items(node, 1, country, file)
    ELSE IF node.t = "seq" THEN fix_cnames_elems(node, 1, country, file)
    ELSE Fixed(node, <<>>)

\* ------------------------------------------------------------- file names
KITT_YML == <<"kitt", "yml">>
TPL_US_PRIMARY == <<"kitt", "us-wm", "primary", "yml">>
TPL_PRIMARY == <<"kitt", "primary", "yml">>
TPL_US_SECONDARY == <<"kitt", "us-wm", "secondary", "yml">>
TPL_CELL == <<"kitt", "cell000", "yml">>
MANIFEST_NAME == <<"created-files", "json">>

SVC_A == <<"svc-a">>
SVC_B == <<"svc-b">>

\* A path is a directory (its components below the repository root) and a
\* file name.
Path(d, n) == [d |-> d, n |-> n]

Exists(fs, p) == p \in DOMAIN fs
WriteFile(fs, p, c) == [q \in DOMAIN fs \cup {p} |-> IF q = p THEN c ELSE fs[q]]
RemoveFile(fs, p) == [q \in DOMAIN fs \ {p} |-> fs[q]]

\* The order in which the operating system lists a directory is not
\* specified.  Two listings are modelled: by name, ascending or descending.
TokenOrder ==
    <<".kitt-backup", "bak", "cell000", "created-files", "de", "jp", "json",
      "kitt", "kittens", "primary", "secondary", "svc-a", "svc-b", "us-wm", "yml">>

RankOf == [tok \in {TokenOrder[i] : i \in 1..Len(TokenOrder)} |->
              CHOOSE i \in 1..Len(TokenOrder) : TokenOrder[i] = tok]

Rank(tok) == RankOf[tok]

RECURSIVE Less(_, _)
Less(a, b) ==
    IF a = <<>> THEN b # <<>>
    ELSE IF b = <<>> THEN FALSE
    ELSE IF Head(a) = Head(b) THEN Less(Tail(a), Tail(b))
    ELSE Rank(Head(a)) < Rank(Head(b))

RECURSIVE Listing(_, _)
Listing(S, rev) ==
    IF S = {} THEN <<>>
    ELSE LET first == CHOOSE a \in S :
                          \A b \in S \ {a} : IF rev THEN Less(b, a) ELSE Less(a, b)
         IN  <<first>> \o Listing(S \ {first}, rev)

\* os.listdir(path), files only (no directory of the model is named kitt*)
listdir(fs, path, rev) == Listing({p.n : p \in {q \in DOMAIN fs : q.d = path}}, rev)

IsPrefix(a, b) == Len(a) <= Len(b) /\ SubSeq(b, 1, Len(a)) = a

\* the sub-directories of top that os.walk lists
subdirs(fs, top, rev) ==
    Listing({SubSeq(p.d, 1, Len(top) + 1) :
                 p \in {q \in DOMAIN fs : IsPrefix(top, q.d) /\ Len(q.d) > Len(top)}},
            rev)

\* os.path.basename(path); the repository root is a directory named "repo"
basename(path) == IF path = <<>> THEN "repo" ELSE path[Len(path)]

\* ---- Helpers ----
backup_path(file_path) == Path(<<BACKUP_DIR>> \o file_path.d, file_path.n \o <<"bak">>)

backup_file(fs, file_path) ==
    IF ~Exists(fs, backup_path(file_path))
    THEN WriteFile(fs, backup_path(file_path), fs[file_path])
    ELSE fs

\* ---- IO ----
\* the content of a file that is not YAML: yaml.load raises on it
Unparsable == [t |-> "unparsable"]

\* the content of a file the process may not read: open raises on it
Unreadable == [t |-> "unreadable"]

load_raises(fs, path) == fs[path] \in {Unparsable, Unreadable}

load_yaml(fs, path) == fs[path]

\* a write that does not look at the dry-run flag
write_yaml_always(fs, path, data, dry_run) == WriteFile(backup_file(fs, path), path, data)

write_yaml(fs, path, data, dry_run) ==
    IF dry_run THEN fs
    ELSE WriteFile(backup_file(fs, path), path, data)

\* ---- Templates ----
\* f.startswith("kitt"): the first token is kitt or begins with it
starts_with_kitt(f) == f # <<>> /\ f[1] \in {"kitt", "kittens"}

\* the test without f.endswith(".yml")
is_template_any_suffix(f) ==
    /\ starts_with_kitt(f)
    /\ \/ ContainsPair(f, "us-wm", "primary")
       \/ ContainsPair(f, "us-wm", "secondary")
       \/ f \in {<<"kitt", "primary", "yml">>, <<"kitt", "secondary", "yml">>}
       \/ Contains(f, "cell000")

is_template(f) ==
    /\ starts_with_kitt(f)
    /\ Len(f) >= 2
    /\ f[Len(f)] = "yml"
    /\ \/ ContainsPair(f, "us-wm", "primary")
       \/ ContainsPair(f, "us-wm", "secondary")
       \/ f \in {<<"kitt", "primary", "yml">>, <<"kitt", "secondary", "yml">>}
       \/ Contains(f, "cell000")

discover_templates(files) == SelectSeq(files, is_template)

\* ---- Create country files ----
\* tpl.replace('kitt.', ''): every token "kitt" that a dot follows goes
RECURSIVE strip_kitt(_)
strip_kitt(tpl) ==
    IF Len(tpl) <= 1 THEN tpl
    ELSE IF Head(tpl) = "kitt" THEN strip_kitt(Tail(tpl))
    ELSE <<Head(tpl)>> \o strip_kitt(Tail(tpl))

dest_name(tpl, country) ==
    LET dest == Replace(Replace(tpl, "cell000", country), "us-wm", country)
    IN  IF dest = tpl THEN <<"kitt", country>> \o strip_kitt(tpl) ELSE dest

\* The state a traversal threads through its calls: the filesystem, the
\* two module-level lists, and whether an exception is on its way up.
Acc(fs, cf, cr) == [fs |-> fs, CREATED_FILES |-> cf, CHANGE_REPORT |-> cr, raised |-> FALSE]

\* What create_country_files leaves behind: the state and its return value.
Made(acc, created) == [acc |-> acc, created |-> created]

\* the four fixes applied to data, one after the other (lines 150-153)
apply_fixes(data, dest, country, a) ==
    LET d1 == fix_cluster_id(data, a.cluster_id, dest)
        d2 == fix_namespace(d1.n, a.namespace, dest)
        d3 == fix_country(d2.n, country, dest)
        d4 == fix_cnames(d3.n, country, dest)
    IN  [d4 EXCEPT !.ch = d1.ch \o d2.ch \o d3.ch \o @]

\* the loop body without the os.path.exists(dest_path) test
create_one_overwriting(m, path, tpl, base, country, a) ==
    LET dest == dest_name(tpl, country)
        dest_path == Path(path, dest)
        data == apply_fixes(base, dest, country, a)
        report == m.acc.CHANGE_REPORT \o data.ch
    IN  IF data.raised
        THEN [m EXCEPT !.acc.CHANGE_REPORT = report, !.acc.raised = TRUE]
        ELSE Made(Acc(IF a.dry_run THEN m.acc.fs
                      ELSE WriteFile(m.acc.fs, dest_path, data.n),
                      Append(m.acc.CREATED_FILES, dest_path),
                      report),
                  Append(m.created, dest))

\* the body of "for country in countries" for one country
create_one(m, path, tpl, base, country, a) ==
    LET dest == dest_name(tpl, country)
        dest_path == Path(path, dest)
    IN  IF Exists(m.acc.fs, dest_path) THEN m
        ELSE LET data == apply_fixes(base, dest, country, a)
                 report == m.acc.CHANGE_REPORT \o data.ch
             IN  IF data.raised
                 THEN [m EXCEPT !.acc.CHANGE_REPORT = report, !.acc.raised = TRUE]
                 ELSE Made(Acc(IF a.dry_run THEN m.acc.fs
                               ELSE WriteFile(m.acc.fs, dest_path, data.n),
                               Append(m.acc.CREATED_FILES, dest_path),
                               report),
                           Append(m.created, dest))

\* data = base: the fixes act on the template tree itself
base_shared(m, path, tpl, base, country, a) ==
    IF Exists(m.acc.fs, Path(path, dest_name(tpl, country))) THEN base
    ELSE apply_fixes(base, dest_name(tpl, country), country, a).n

\* The template tree after the loop body has run for one country: the
\* fixes mutate their argument in place, and data = copy.deepcopy(base)
\* shares nothing with base, so base is what it was.
base_after(m, path, tpl, base, country, a) == base

RECURSIVE country_loop(_, _, _, _, _, _)
country_loop(m, path, tpl, base, j, a) ==
    IF j > Len(a.countries) \/ m.acc.raised THEN m
    ELSE country_loop(create_one(m, path, tpl, base, a.countries[j], a),
                      path, tpl, base_after(m, path, tpl, base, a.countries[j], a),
                      j + 1, a)

RECURSIVE template_loop(_, _, _, _, _)
template_loop(m, path, tpls, i, a) ==
    IF i > Len(tpls) \/ m.acc.raised THEN m
    ELSE IF load_raises(m.acc.fs, Path(path, tpls[i])) THEN [m EXCEPT !.acc.raised = TRUE]
    ELSE template_loop(
             country_loop(m, path, tpls[i], load_yaml(m.acc.fs, Path(path, tpls[i])), 1, a),
             path, tpls, i + 1, a)

create_country_files(acc, path, a, rev) ==
    template_loop(Made(acc, <<>>), path,
                  discover_templates(listdir(acc.fs, path, rev)), 1, a)

\* ---- Pipeline ----
Bool(b) == [t |-> "bool", b |-> b]

kittFilePath(path, f) == Str(<<basename(path), "/">> \o f)

\* a task appended with sync left true
deploy_task_synchronous(path, f) ==
    Map(<<Entry("task", Map(<<Entry("name", Str(<<"deployApp">>)),
                              Entry("kittFilePath", kittFilePath(path, f)),
                              Entry("sync", Bool(TRUE)),
                              Entry("executionScope", Str(<<"child">>))>>))>>)

deploy_task(path, f) ==
    Map(<<Entry("task", Map(<<Entry("name", Str(<<"deployApp">>)),
                              Entry("kittFilePath", kittFilePath(path, f)),
                              Entry("sync", Bool(FALSE)),
                              Entry("executionScope", Str(<<"child">>))>>))>>)

\* data.get("build", {}).get("postBuild"), or None
post_build(data) ==
    IF data.t = "map" /\ HasKey(data, "build") /\ HasKey(Get(data, "build"), "postBuild")
    THEN Get(Get(data, "build"), "postBuild")
    ELSE [t |-> "none"]

\* tasks put in front of the list, last generated first
insert_tasks_front(data, path, created) ==
    LET build == Get(data, "build")
        post == Get(build, "postBuild")
        added == [i \in 1..Len(created) |->
                     deploy_task(path, created[Len(created) + 1 - i])]
    IN  Put(data, "build", Put(build, "postBuild", [post EXCEPT !.e = added \o post.e]))

append_tasks(data, path, created) ==
    LET build == Get(data, "build")
        post == Get(build, "postBuild")
        added == [i \in 1..Len(created) |-> deploy_task(path, created[i])]
    IN  Put(data, "build", Put(build, "postBuild", [post EXCEPT !.e = post.e \o added]))

\* a registrar that starts a kitt.yml where there is none
update_pipeline_creating(fs, path, created, dry_run) ==
    LET kitt == Path(path, KITT_YML)
        empty == Map(<<Entry("build", Map(<<Entry("postBuild", BlockSeq(<<>>))>>))>>)
    IN  IF ~Exists(fs, kitt)
        THEN (IF dry_run THEN fs ELSE WriteFile(fs, kitt, append_tasks(empty, path, created)))
        ELSE IF post_build(load_yaml(fs, kitt)).t # "seq" THEN fs
        ELSE write_yaml(fs, kitt, append_tasks(load_yaml(fs, kitt), path, created), dry_run)

\* a registrar that writes a descriptor holding the task list alone
update_pipeline_rebuilding(fs, path, created, dry_run) ==
    LET kitt == Path(path, KITT_YML)
        added == [i \in 1..Len(created) |-> deploy_task(path, created[i])]
    IN  IF ~Exists(fs, kitt) THEN fs
        ELSE IF post_build(load_yaml(fs, kitt)).t # "seq" THEN fs
        ELSE write_yaml(fs, kitt,
                        Map(<<Entry("build",
                                    Map(<<Entry("postBuild",
                                                BlockSeq(post_build(load_yaml(fs, kitt)).e
                                                             \o added))>>))>>),
                        dry_run)

update_pipeline(fs, path, created, dry_run) ==
    LET kitt == Path(path, KITT_YML)
    IN  IF ~Exists(fs, kitt) THEN fs
        ELSE IF post_build(load_yaml(fs, kitt)).t # "seq" THEN fs
        ELSE write_yaml(fs, kitt, append_tasks(load_yaml(fs, kitt), path, created), dry_run)

\* ---- Traverse ----
\* A traversal's result: the state, and what create_country_files returned
\* in each directory it was called for, in order.
Walked(acc, gen) == [acc |-> acc, gen |-> gen]

\* the body of the os.walk loop for one directory
visit(w, root, a, rev) ==
    IF \E p \in DOMAIN w.acc.fs : p.d = root /\ starts_with_kitt(p.n)
    THEN LET m == create_country_files(w.acc, root, a, rev)
         IN  IF m.acc.raised THEN Walked(m.acc, w.gen)
             ELSE Walked(IF m.created # <<>>
                         THEN [m.acc EXCEPT
                                  !.fs = update_pipeline(@, root, m.created, a.dry_run)]
                         ELSE m.acc,
                         Append(w.gen, [dir |-> root, created |-> m.created]))
    ELSE w

\* os.walk, top-down: a directory's sub-directories are listed before the
\* directory is handed to the loop body and are then walked in that order.
RECURSIVE walk(_, _, _, _)
RECURSIVE walk_dirs(_, _, _, _, _)
walk(w, top, a, rev) ==
    LET dirs == subdirs(w.acc.fs, top, rev)
    IN  walk_dirs(visit(w, top, a, rev), dirs, 1, a, rev)

walk_dirs(w, dirs, i, a, rev) ==
    IF i > Len(dirs) \/ w.acc.raised THEN w
    ELSE walk_dirs(walk(w, dirs[i], a, rev), dirs, i + 1, a, rev)

\* traverse_repo in a fresh process (both module-level lists empty)
traverse_repo(fs, a, rev) == walk(Walked(Acc(fs, <<>>, <<>>), <<>>), <<>>, a, rev)

MANIFEST == Path(<<BACKUP_DIR>>, MANIFEST_NAME)

persist_created_files(fs, created_files) ==
    IF created_files = <<>> THEN fs
    ELSE WriteFile(fs, MANIFEST, [t |-> "json", files |-> created_files])

\* ---- Rollback ----
in_backup(p) == p.d # <<>> /\ p.d[1] = BACKUP_DIR
is_bak(p) == in_backup(p) /\ p.n[Len(p.n)] = "bak"
original(p) == Path(Tail(p.d), SubSeq(p.n, 1, Len(p.n) - 1))

Baks(fs) == {p \in DOMAIN fs : is_bak(p)}

\* How a process ends: "completed", "no-backup" (rollback found no backup
\* directory) or "raised" (an exception left main()).
Done(fs, outcome) == [fs |-> fs, outcome |-> outcome]

\* shutil.copy2(src, dst), after ensure_dir
copy2(fs, src, dst) ==
    IF fs[src] = Unreadable THEN Done(fs, "raised")
    ELSE Done(WriteFile(fs, dst, fs[src]), "completed")

\* the .bak files below top in the order of os.walk: the files of a
\* directory, then its sub-directories one after the other
RECURSIVE backup_walk(_, _, _)
RECURSIVE backup_walk_dirs(_, _, _, _)
backup_walk(fs, top, rev) ==
    LET files == listdir(fs, top, rev)
        baks == SelectSeq([i \in 1..Len(files) |-> Path(top, files[i])], is_bak)
    IN  baks \o backup_walk_dirs(fs, subdirs(fs, top, rev), 1, rev)

backup_walk_dirs(fs, dirs, i, rev) ==
    IF i > Len(dirs) THEN <<>>
    ELSE backup_walk(fs, dirs[i], rev) \o backup_walk_dirs(fs, dirs, i + 1, rev)

\* 1. Restore backups
RECURSIVE restore_loop(_, _, _)
restore_loop(r, baks, i) ==
    IF i > Len(baks) \/ r.outcome = "raised" THEN r
    ELSE restore_loop(copy2(r.fs, baks[i], original(baks[i])), baks, i + 1)

restore_backups(fs, rev) ==
    restore_loop(Done(fs, "completed"), backup_walk(fs, <<BACKUP_DIR>>, rev), 1)

\* os.remove raises FileNotFoundError for a path that does not exist
os_remove(fs, p) ==
    IF Exists(fs, p) THEN Done(RemoveFile(fs, p), "completed") ELSE Done(fs, "raised")

\* a removal that does not look first
remove_unguarded(fs, abs_path) == os_remove(fs, abs_path)

\* the body of "for rel_path in created_files"
remove_created(fs, abs_path) ==
    IF Exists(fs, abs_path) THEN os_remove(fs, abs_path) ELSE Done(fs, "completed")

\* 2. Delete newly created files
RECURSIVE delete_created(_, _, _)
delete_created(r, created_files, i) ==
    IF i > Len(created_files) \/ r.outcome = "raised" THEN r
    ELSE delete_created(remove_created(r.fs, created_files[i]), created_files, i + 1)

\* a rollback that restores the backups and stops there
rollback_restore_only(fs, rev) ==
    IF ~\E p \in DOMAIN fs : in_backup(p)
    THEN Done(fs, "no-backup")
    ELSE restore_backups(fs, rev)

\* a rollback that does not look for the backup directory first
rollback_unchecked(fs, rev) ==
    LET restored == restore_backups(fs, rev)
    IN  IF restored.outcome = "raised" THEN restored
        ELSE IF Exists(restored.fs, MANIFEST)
        THEN delete_created(restored, restored.fs[MANIFEST].files, 1)
        ELSE restored

rollback(fs, rev) ==
    IF ~\E p \in DOMAIN fs : in_backup(p)
    THEN Done(fs, "no-backup")
    ELSE LET restored == restore_backups(fs, rev)
         IN  IF restored.outcome = "raised" THEN restored
             ELSE IF Exists(restored.fs, MANIFEST)
             THEN delete_created(restored, restored.fs[MANIFEST].files, 1)
             ELSE restored

\* ------------------------------------------------------- repository inputs
\* Template documents.
DocUsPrimary ==
    Map(<<Entry("cluster_id", BlockSeq(<<Str(<<"11">>), Str(<<"12">>)>>)),
          Entry("namespace", Str(<<"us-ns">>)),
          Entry("labels", Map(<<Entry("ccm.country", Str(<<"us">>))>>)),
          Entry("cnames", BlockSeq(<<Str(<<"app", "cell000", "example">>),
                                     Str(<<"app", "example">>)>>))>>)

DocPrimary ==
    Map(<<Entry("stages", BlockSeq(<<
              Map(<<Entry("cluster_id", Str(<<"11">>)),
                    Entry("namespace", Str(<<"us-ns">>))>>)>>))>>)

DocCell ==
    Map(<<Entry("namespace", Str(<<"cell-ns">>)),
          Entry("cnames", FlowSeq(<<Str(<<"cell000", "example">>)>>))>>)

\* a document whose cluster_id and namespace are mappings
DocMappings ==
    Map(<<Entry("cluster_id", Map(<<Entry("cluster_id", Str(<<"11">>)),
                                    Entry("namespace", Str(<<"inner">>))>>)),
          Entry("namespace", Map(<<Entry("namespace", Str(<<"inner">>))>>))>>)

\* a document without any of the four fields
DocPlain == Map(<<Entry("owner", Str(<<"team">>))>>)

\* a document whose labels are a scalar and whose cnames hold a number
\* between two host names
DocNumber ==
    Map(<<Entry("labels", Str(<<"none">>)),
          Entry("cnames", BlockSeq(<<Str(<<"app", "cell000", "example">>), Num(5),
                                     Str(<<"cell000", "example">>)>>))>>)

\* a document whose cnames hold a list that has the marker as an element
DocListOfLists ==
    Map(<<Entry("stages", BlockSeq(<<
              Map(<<Entry("cnames", BlockSeq(<<FlowSeq(<<Str(<<"cell000">>)>>)>>))>>)>>))>>)

\* a document with two marked host names around a plain one
DocTwoNames ==
    Map(<<Entry("cnames", BlockSeq(<<Str(<<"app", "cell000", "example">>),
                                     Str(<<"app", "example">>),
                                     Str(<<"cell000", "cell000">>)>>))>>)

\* a document whose labels hold labels of their own
DocNestedLabels ==
    Map(<<Entry("labels", Map(<<Entry("ccm.country", Str(<<"us">>)),
                                Entry("labels", Map(<<Entry("ccm.country",
                                                            Str(<<"inner">>))>>))>>)),
          Entry("cnames", BlockSeq(<<
              Map(<<Entry("cnames", BlockSeq(<<Str(<<"cell000", "inner">>)>>))>>),
              Str(<<"cell000", "outer">>)>>))>>)

TemplateDoc(tpl) ==
    IF tpl = TPL_US_PRIMARY THEN DocUsPrimary
    ELSE IF tpl \in {TPL_PRIMARY, TPL_US_SECONDARY} THEN DocPrimary
    ELSE DocCell

\* Pipeline descriptors: no task list, an empty task list, a task list that
\* already references a descriptor which is not on disk.  A descriptor with
\* a task list has entries before and after build and, inside build, before
\* and after postBuild.
KittNoList == Map(<<Entry("build", Map(<<Entry("docker", Str(<<"app">>))>>))>>)

KittOf(tasks) ==
    Map(<<Entry("owner", Str(<<"team">>)),
          Entry("build", Map(<<Entry("docker", Str(<<"app">>)),
                               Entry("postBuild", BlockSeq(tasks)),
                               Entry("artifact", Str(<<"app">>))>>)),
          Entry("notify", FlowSeq(<<Str(<<"team">>)>>))>>)

Absent == [t |-> "absent"]

KittChoices(dir) ==
    {Absent, KittNoList, KittOf(<<>>),
     KittOf(<<deploy_task(dir, <<"kitt", "jp", "primary", "yml">>)>>)}

\* The templates of svc-a: one; two that map to the same destination; two
\* that do not.
TemplateChoices ==
    {{TPL_US_PRIMARY}, {TPL_US_PRIMARY, TPL_PRIMARY}, {TPL_US_PRIMARY, TPL_US_SECONDARY}}

\* the files of one directory: its templates and, unless absent, kitt.yml
DirFiles(dir, tpls, kitt) ==
    {[p |-> Path(dir, tpl), c |-> TemplateDoc(tpl)] : tpl \in tpls}
        \cup (IF kitt = Absent THEN {} ELSE {[p |-> Path(dir, KITT_YML), c |-> kitt]})

FsOf(files) == [p \in {f.p : f \in files} |-> (CHOOSE f \in files : f.p = p).c]

\* The --countries lists offered: one key, two keys, the same key twice,
\* and "us-wm", the market the templates are written for, which is itself
\* a legal --countries value.
KeyLists == {<<"jp">>, <<"jp", "de">>, <<"jp", "jp">>, <<"us-wm">>}

Args == [countries : KeyLists, cluster_id : {<<"77">>}, namespace : {<<"prod">>},
         dry_run : BOOLEAN]

NoArgs == [countries |-> <<>>, cluster_id |-> <<>>, namespace |-> <<>>, dry_run |-> FALSE]

\* ------------------------------------------------------------------ state
VARIABLES
    fs,             \* the files under the repository: path -> content
    rev,            \* the directory listing order of this filesystem
    pc,             \* "idle" between processes, "traversed" inside main()
    args,           \* the arguments of the current or the latest run
    CREATED_FILES,  \* module-level list of the current or the latest process
    CHANGE_REPORT,  \* module-level list of the current or the latest process
    generated,      \* what create_country_files returned, per directory
    outcome,        \* how the latest process ended
    ops,            \* processes started so far
    hist,           \* the kinds of the latest two processes
    snap,           \* the files as they were when the latest run started
    base,           \* the files as they were before the backup store existed,
                    \* while only non-dry runs have followed (then a rollback)
    call,           \* a function called on its own: its name and arguments
    ret,            \* what that call returned
    schedule_running,   \* screenshotagent: the module-level flag
    schedule_thread,    \* screenshotagent: the latest loop thread, 0 for None
    loops,          \* the loop threads started so far: where each one is
    callers         \* where the GUI thread and the tray thread are

vars == <<fs, rev, pc, args, CREATED_FILES, CHANGE_REPORT, generated, outcome,
          ops, hist, snap, base, call, ret,
          schedule_running, schedule_thread, loops, callers>>

\* the state of the capture scheduler
sched == <<schedule_running, schedule_thread, loops, callers>>

\* the threads that call start_scheduler and stop_scheduler: the Qt thread
\* (the two buttons, quit_app) and the thread of the tray menu
Callers == {"gui", "tray"}

\* the scheduler as the module leaves it when it is loaded
SchedulerOff ==
    /\ schedule_running = FALSE
    /\ schedule_thread = 0
    /\ loops = <<>>
    /\ callers = [c \in Callers |-> "idle"]

\* no function is called on its own / the call has not returned
NoCall == [op |-> "none"]
NoRet == [t |-> "none"]

\* the processes so far are not a series of non-dry runs that began
\* without a backup store
NoBase == [t |-> "none"]

Init ==
    /\ \E tplsA \in TemplateChoices, kittA \in KittChoices(SVC_A) :
           fs = FsOf(DirFiles(SVC_A, tplsA, kittA)
                         \cup DirFiles(SVC_B, {TPL_CELL}, KittOf(<<>>)))
    /\ rev \in BOOLEAN
    /\ pc = "idle"
    /\ args = NoArgs
    /\ CREATED_FILES = <<>>
    /\ CHANGE_REPORT = <<>>
    /\ generated = <<>>
    /\ outcome = "none"
    /\ ops = 0
    /\ hist = <<"none", "none">>
    /\ snap = fs
    /\ base = NoBase
    /\ SchedulerOff
    /\ call = NoCall
    /\ ret = NoRet

\* main() without --rollback, up to the return of traverse_repo, or to the
\* end of the process if traverse_repo raises
Traverse(a) ==
    /\ pc = "idle"
    /\ ops < MaxOps
    /\ \E w \in {traverse_repo(fs, a, rev)} :
           /\ fs' = w.acc.fs
           /\ CREATED_FILES' = w.acc.CREATED_FILES
           /\ CHANGE_REPORT' = w.acc.CHANGE_REPORT
           /\ generated' = w.gen
           /\ pc' = IF w.acc.raised THEN "idle" ELSE "traversed"
           /\ outcome' = IF w.acc.raised THEN "raised" ELSE "running"
           /\ hist' = <<hist[2], IF w.acc.raised THEN "crashed"
                                 ELSE IF a.dry_run THEN "dry-run" ELSE "run">>
    /\ args' = a
    /\ ops' = ops + 1
    /\ snap' = fs
    /\ base' = IF a.dry_run \/ hist'[2] = "crashed" THEN NoBase
               ELSE IF ~\E p \in DOMAIN fs : in_backup(p) THEN fs
               ELSE IF hist[2] = "run" THEN base
               ELSE NoBase
    /\ UNCHANGED <<rev, call, ret, sched>>

\* main() from persist_created_files to its end
Persist ==
    /\ pc = "traversed"
    /\ fs' = persist_created_files(fs, CREATED_FILES)
    /\ pc' = "idle"
    /\ outcome' = "completed"
    /\ UNCHANGED <<sched, rev, args, CREATED_FILES, CHANGE_REPORT, generated, ops, hist, snap, base,
                   call, ret>>

\* main() with --rollback
Rollback ==
    /\ pc = "idle"
    /\ ops < MaxOps
    /\ \E r \in {rollback(fs, rev)} :
           /\ fs' = r.fs
           /\ outcome' = r.outcome
    /\ CREATED_FILES' = <<>>
    /\ CHANGE_REPORT' = <<>>
    /\ generated' = <<>>
    /\ ops' = ops + 1
    /\ hist' = <<hist[2], "rollback">>
    /\ UNCHANGED <<rev, pc, args, snap, base, call, ret, sched>>

Next ==
    \/ \E a \in Args : Traverse(a)
    \/ Persist
    \/ Rollback

Spec == Init /\ [][Next]_vars

\* ----------------------------------------------------------------- faults
\* The same command line on repositories where something fails: a template
\* that is not YAML, a template with a number among its cnames, and a
\* backup entry that has become unreadable since the run that wrote it.
FaultUnparsable ==
    FsOf({[p |-> Path(SVC_A, TPL_US_PRIMARY), c |-> Unparsable]}
             \cup DirFiles(SVC_A, {TPL_US_SECONDARY}, KittOf(<<>>))
             \cup DirFiles(SVC_B, {TPL_CELL}, KittOf(<<>>)))

FaultNumber ==
    FsOf({[p |-> Path(SVC_A, TPL_US_PRIMARY), c |-> DocNumber]}
             \cup DirFiles(SVC_A, {TPL_US_SECONDARY}, KittOf(<<>>))
             \cup DirFiles(SVC_B, {TPL_CELL}, KittOf(<<>>)))

\* the files a run for jp leaves, listing order r
AfterRun(r) ==
    LET before == FsOf(DirFiles(SVC_A, {TPL_US_PRIMARY}, KittOf(<<>>))
                           \cup DirFiles(SVC_B, {TPL_CELL}, KittOf(<<>>)))
        a == [countries |-> <<"jp">>, cluster_id |-> <<"77">>, namespace |-> <<"prod">>,
              dry_run |-> FALSE]
        w == traverse_repo(before, a, r)
    IN  persist_created_files(w.acc.fs, w.acc.CREATED_FILES)

FaultBackup(r) ==
    [AfterRun(r) EXCEPT ![backup_path(Path(SVC_A, KITT_YML))] = Unreadable]

FaultInit ==
    /\ rev \in BOOLEAN
    /\ fs \in {FaultUnparsable, FaultNumber, FaultBackup(rev)}
    /\ pc = "idle"
    /\ args = NoArgs
    /\ CREATED_FILES = <<>>
    /\ CHANGE_REPORT = <<>>
    /\ generated = <<>>
    /\ outcome = "none"
    /\ ops = 0
    /\ hist = <<"none", "none">>
    /\ snap = fs
    /\ base = NoBase
    /\ SchedulerOff
    /\ call = NoCall
    /\ ret = NoRet

FaultSpec == FaultInit /\ [][Next]_vars

\* ---------------------------------------------------------- single calls
\* The functions of the module called on their own, as create_country_files
\* calls them, on documents and listings of every shape.

UnitDocs ==
    {DocUsPrimary, DocPrimary, DocCell, DocMappings, DocPlain, DocNumber, DocListOfLists,
     DocNestedLabels, DocTwoNames}

UnitFiles == {<<"kitt", "jp", "primary", "yml">>}

FixClusterIdCalls ==
    [op : {"fix_cluster_id"}, node : UnitDocs, cluster_id : {<<"77">>, <<"11">>},
     file : UnitFiles]

FixNamespaceCalls ==
    [op : {"fix_namespace"}, node : UnitDocs, namespace : {<<"prod">>, <<"us-ns">>},
     file : UnitFiles]

FixCountryCalls ==
    [op : {"fix_country"}, node : UnitDocs, country : {"jp", "de"}, file : UnitFiles]

FixCnamesCalls ==
    [op : {"fix_cnames"}, node : UnitDocs, country : {"jp", "de"}, file : UnitFiles]

\* File names of a directory: the templates, the pipeline descriptor, a
\* generated descriptor, and names that miss one part of the test.
UnitNames ==
    {TPL_US_PRIMARY, TPL_US_SECONDARY, TPL_PRIMARY, <<"kitt", "secondary", "yml">>,
     TPL_CELL, KITT_YML, <<"kitt", "jp", "primary", "yml">>,
     <<"kitt", "cell000", "json">>, <<"kitt", "cell000", "yml", "bak">>,
     <<"svc-a", "cell000", "yml">>, <<"kittens", "cell000", "yml">>,
     <<"kitt", "primary", "us-wm", "yml">>}

\* os.listdir returns each name once, in any order
UnitListings ==
    UNION {{s \in [1..n -> UnitNames] : \A i, j \in 1..n : s[i] = s[j] => i = j} :
               n \in 0..MaxListing}

DiscoverCalls == [op : {"discover_templates"}, files : UnitListings]

\* Template names: those of UnitNames, one with both markers and one with
\* kitt inside the name; keys: two markets and the two markers.
UnitTemplates ==
    {f \in UnitNames : is_template(f)}
        \cup {<<"kitt", "cell000", "us-wm", "primary", "yml">>,
              <<"kitt", "cell000", "kitt", "yml">>}

DestNameCalls ==
    [op : {"dest_name"}, tpl : UnitTemplates, country : {"jp", "de", "us-wm", "cell000"}]

UnitCalls == FixClusterIdCalls \cup FixNamespaceCalls \cup FixCountryCalls
                 \cup FixCnamesCalls \cup DiscoverCalls \cup DestNameCalls

UnitInit ==
    /\ call \in UnitCalls
    /\ ret = NoRet
    /\ fs = <<>>
    /\ rev = FALSE
    /\ pc = "idle"
    /\ args = NoArgs
    /\ CREATED_FILES = <<>>
    /\ CHANGE_REPORT = <<>>
    /\ generated = <<>>
    /\ outcome = "none"
    /\ ops = 0
    /\ hist = <<"none", "none">>
    /\ snap = fs
    /\ base = NoBase
    /\ SchedulerOff

Returns(value) ==
    /\ ret = NoRet
    /\ ret' = value
    /\ UNCHANGED <<sched, fs, rev, pc, args, CREATED_FILES, CHANGE_REPORT, generated, outcome,
                   ops, hist, snap, base, call>>

CallFixClusterId ==
    /\ call.op = "fix_cluster_id"
    /\ Returns(fix_cluster_id(call.node, call.cluster_id, call.file))

CallFixNamespace ==
    /\ call.op = "fix_namespace"
    /\ Returns(fix_namespace(call.node, call.namespace, call.file))

CallFixCountry ==
    /\ call.op = "fix_country"
    /\ Returns(fix_country(call.node, call.country, call.file))

CallFixCnames ==
    /\ call.op = "fix_cnames"
    /\ Returns(fix_cnames(call.node, call.country, call.file))

CallDiscoverTemplates ==
    /\ call.op = "discover_templates"
    /\ Returns([names |-> discover_templates(call.files)])

\* lines 139-141 of create_country_files
CallDestName ==
    /\ call.op = "dest_name"
    /\ Returns([name |-> dest_name(call.tpl, call.country)])

UnitNext ==
    \/ CallFixClusterId
    \/ CallFixNamespace
    \/ CallFixCountry
    \/ CallFixCnames
    \/ CallDiscoverTemplates
    \/ CallDestName

UnitSpec == UnitInit /\ [][UnitNext]_vars

\* -------------------------------------------------------------- scheduler
\* src/screenshotagent.py, start_scheduler / stop_scheduler.  Each step
\* below reads or writes the module-level flag once; the interpreter may
\* switch threads between any two of them.  What the loop body captures
\* and hands to the window is not part of the scheduler's state.

\* the state of the descriptor generator, which the scheduler never touches
automation == <<fs, rev, pc, args, CREATED_FILES, CHANGE_REPORT, generated, outcome,
                ops, hist, snap, base, call, ret>>

SchedInit ==
    /\ SchedulerOff
    /\ fs = <<>>
    /\ rev = FALSE
    /\ pc = "idle"
    /\ args = NoArgs
    /\ CREATED_FILES = <<>>
    /\ CHANGE_REPORT = <<>>
    /\ generated = <<>>
    /\ outcome = "none"
    /\ ops = 0
    /\ hist = <<"none", "none">>
    /\ snap = fs
    /\ base = NoBase
    /\ call = NoCall
    /\ ret = NoRet

\* a loop thread that Thread.start() has just started
NewLoop == [pc |-> "while", left |-> 0]

\* the loop threads that have not returned from loop()
LiveLoops == {i \in 1..Len(loops) : loops[i].pc # "exited"}

\* start_scheduler, `if schedule_running: return`
start_scheduler_test(c) ==
    /\ callers[c] = "idle"
    /\ Len(loops) + Cardinality({d \in Callers : callers[d] # "idle"}) < MaxStarts
    /\ callers' = [callers EXCEPT ![c] = IF schedule_running THEN "idle" ELSE "set"]
    /\ UNCHANGED <<schedule_running, schedule_thread, loops, automation>>

\* start_scheduler, `schedule_running = True`
start_scheduler_set(c) ==
    /\ callers[c] = "set"
    /\ schedule_running' = TRUE
    /\ callers' = [callers EXCEPT ![c] = "spawn"]
    /\ UNCHANGED <<schedule_thread, loops, automation>>

\* start_scheduler, `schedule_thread = threading.Thread(...)` and `.start()`
start_scheduler_spawn(c) ==
    /\ callers[c] = "spawn"
    /\ loops' = Append(loops, NewLoop)
    /\ schedule_thread' = Len(loops) + 1
    /\ callers' = [callers EXCEPT ![c] = "idle"]
    /\ UNCHANGED <<schedule_running, automation>>

\* stop_scheduler
stop_scheduler(c) ==
    /\ callers[c] = "idle"
    /\ schedule_running' = FALSE
    /\ UNCHANGED <<schedule_thread, loops, callers, automation>>

\* loop, `while schedule_running:` and the return when it is false
loop_while(i) ==
    /\ loops[i].pc = "while"
    /\ loops' = [loops EXCEPT ![i].pc = IF schedule_running THEN "body" ELSE "exited"]
    /\ UNCHANGED <<schedule_running, schedule_thread, callers, automation>>

\* loop, the capture and its hand-over to the window, up to the for loop
loop_body(i) ==
    /\ loops[i].pc = "body"
    /\ loops' = [loops EXCEPT ![i] = [pc |-> "sleep", left |-> Slices]]
    /\ UNCHANGED <<schedule_running, schedule_thread, callers, automation>>

\* loop, one iteration of `for _ in range(int(interval * 10))`
loop_sleep(i) ==
    /\ loops[i].pc = "sleep"
    /\ loops' = [loops EXCEPT ![i] =
                     IF loops[i].left = 0 \/ ~schedule_running
                     THEN [pc |-> "while", left |-> 0]
                     ELSE [pc |-> "sleep", left |-> loops[i].left - 1]]
    /\ UNCHANGED <<schedule_running, schedule_thread, callers, automation>>

SchedNext ==
    \/ \E c \in Callers : start_scheduler_test(c)
    \/ \E c \in Callers : start_scheduler_set(c)
    \/ \E c \in Callers : start_scheduler_spawn(c)
    \/ \E c \in Callers : stop_scheduler(c)
    \/ \E i \in 1..Len(loops) : loop_while(i)
    \/ \E i \in 1..Len(loops) : loop_body(i)
    \/ \E i \in 1..Len(loops) : loop_sleep(i)

SchedSpec == SchedInit /\ [][SchedNext]_vars

\* the loop threads get to run
SchedFairSpec ==
    SchedSpec /\ \A i \in 1..MaxStarts :
                     WF_vars(i \in 1..Len(loops) /\ (loop_while(i) \/ loop_body(i) \/ loop_sleep(i)))
\* ------------------------------------------------------------------ claims
\* the files outside the backup store
Live(f) == [p \in {q \in DOMAIN f : ~in_backup(q)} |-> f[p]]

\* the kittFilePath references of a descriptor's task list, in order
RefsOf(data) ==
    IF post_build(data).t # "seq" THEN <<>>
    ELSE LET post == post_build(data)
             hasRef(task) == /\ task.t = "map" /\ HasKey(task, "task")
                             /\ Get(task, "task").t = "map"
                             /\ HasKey(Get(task, "task"), "kittFilePath")
         IN  [i \in 1..Len(SelectSeq(post.e, hasRef)) |->
                 Get(Get(SelectSeq(post.e, hasRef)[i], "task"), "kittFilePath")]

Kitts(f) == {p \in DOMAIN f : ~in_backup(p) /\ p.n = KITT_YML}

\* C1 (as claimed): a non-dry run (traverse_repo and persist_created_files)
\* followed at once by a rollback leaves every file outside the backup
\* store as it was just before that run.
C1_RunRollbackRoundTrip ==
    hist = <<"run", "rollback">> => Live(fs) = Live(snap)

\* C2 (as claimed): a non-dry run repeated with the same arguments creates
\* no file and leaves every file, kitt.yml included, as it is.
C2_SecondRunIsNoOp ==
    [][(pc = "idle" /\ pc' = "traversed" /\ hist[2] = "run"
            /\ ~args'.dry_run /\ args' = args)
          => (fs' = fs /\ CREATED_FILES' = <<>>)]_vars

\* C3 (as claimed): no kitt.yml ever lists the same kittFilePath reference
\* twice, because the registrar appends only references not yet present.
C3_NoReferenceTwice ==
    \A k \in Kitts(fs) :
        \A i, j \in 1..Len(RefsOf(fs[k])) :
            RefsOf(fs[k])[i] = RefsOf(fs[k])[j] => i = j

\* C4: when a rollback has completed, every path with a .bak entry has the
\* content of that entry and no path the manifest lists exists.
C4_RollbackPostcondition ==
    (hist[2] = "rollback" /\ outcome = "completed") =>
        /\ \A b \in Baks(fs) : Exists(fs, original(b)) /\ fs[original(b)] = fs[b]
        /\ Exists(fs, MANIFEST) =>
               \A i \in 1..Len(fs[MANIFEST].files) : ~Exists(fs, fs[MANIFEST].files[i])

\* C4 witness: a rollback completed after a real run that had written a
\* backup and a manifest.
C4_Witness ==
    /\ hist = <<"run", "rollback">>
    /\ outcome = "completed"
    /\ Baks(fs) # {}
    /\ Exists(fs, MANIFEST)
    /\ \E p \in DOMAIN snap : fs[p] = snap[p] /\ p.n = KITT_YML

\* C5: a rollback issued right after a rollback raises nothing and leaves
\* every file as the first rollback left it.
C5_RollbackTwice ==
    [][(pc = "idle" /\ hist[2] = "rollback" /\ hist'[2] = "rollback" /\ ops' = ops + 1)
          => (fs' = fs /\ outcome' # "raised")]_vars

\* C5 witness: two rollbacks in a row, the manifest listing files that the
\* first one had already removed.
C5_Witness ==
    /\ hist = <<"rollback", "rollback">>
    /\ outcome = "completed"
    /\ Baks(fs) # {}
    /\ Exists(fs, MANIFEST)
    /\ \E i \in 1..Len(fs[MANIFEST].files) : ~Exists(fs, fs[MANIFEST].files[i])

\* C6 (as claimed): after a non-dry run, the backup entry of every path the
\* run has written holds the content the path had just before that run.
C6_BackupHoldsPreRunContent ==
    hist[2] = "run" =>
        \A p \in DOMAIN snap :
            (~in_backup(p) /\ Exists(fs, p) /\ fs[p] # snap[p]) =>
                /\ Exists(fs, backup_path(p))
                /\ fs[backup_path(p)] = snap[p]

\* C7: a dry-run traverse_repo leaves the files under the repository, the
\* backup store included, exactly as they were.
C7_DryRunTouchesNothing ==
    [][(pc = "idle" /\ pc' = "traversed" /\ args'.dry_run) => fs' = fs]_vars

\* C7 witness: a dry-run traversal that generated a descriptor in a
\* directory whose kitt.yml has a task list, so that both the file write
\* and the kitt.yml write were reached and suppressed.
C7_Witness ==
    /\ pc = "traversed"
    /\ args.dry_run
    /\ \E i \in 1..Len(generated) :
           /\ generated[i].created # <<>>
           /\ Exists(fs, Path(generated[i].dir, KITT_YML))
           /\ post_build(fs[Path(generated[i].dir, KITT_YML)]).t = "seq"

\* C8 (as claimed): a dry run adds no path to CREATED_FILES and persists no
\* manifest.
C8_DryRunNoManifestEntry ==
    hist[2] = "dry-run" =>
        /\ CREATED_FILES = <<>>
        /\ Exists(fs, MANIFEST) <=> Exists(snap, MANIFEST)
        /\ Exists(fs, MANIFEST) => fs[MANIFEST] = snap[MANIFEST]

\* C9 (as claimed): a dry-run traversal appends the change records and
\* returns the generated names that a real traversal with the same
\* arguments, started from the same files, appends and returns.
C9_DryRunPreviewsRealRun ==
    (pc = "traversed" /\ args.dry_run) =>
        \E real \in {traverse_repo(snap, [args EXCEPT !.dry_run = FALSE], rev)} :
            /\ CHANGE_REPORT = real.acc.CHANGE_REPORT
            /\ generated = real.gen

\* The destinations of templates tpls for keys, template by template and,
\* within a template, key by key.
FanOut(tpls, keys) ==
    [i \in 1..(Len(tpls) * Len(keys)) |->
        dest_name(tpls[((i - 1) \div Len(keys)) + 1], keys[((i - 1) % Len(keys)) + 1])]

Injective(s) == \A i, j \in 1..Len(s) : s[i] = s[j] => i = j

\* the premises of C10 for a directory, on the files before the run
FanOutCase(dir, keys) ==
    LET out == FanOut(discover_templates(listdir(snap, dir, rev)), keys)
    IN  /\ Injective(keys)
        /\ Injective(out)
        /\ \A i \in 1..Len(out) : ~Exists(snap, Path(dir, out[i]))

\* the tasks of a descriptor's build.postBuild, or none
TasksOf(data) == IF post_build(data).t = "seq" THEN post_build(data).e ELSE <<>>

\* C10: in a directory of the project (outside the backup store) with n
\* templates and m distinct keys, no destination on disk and no two pairs
\* sharing a destination, a non-dry run creates exactly the n*m
\* destinations and, if kitt.yml has a task list, appends exactly one task
\* per destination, referencing <directory>/<name>, in template order and
\* within a template in key order.
C10_FanOut ==
    (pc = "traversed" /\ ~args.dry_run) =>
        \A g \in {generated[i] : i \in 1..Len(generated)} :
            (g.dir[1] # BACKUP_DIR /\ FanOutCase(g.dir, args.countries)) =>
                LET tpls == discover_templates(listdir(snap, g.dir, rev))
                    out == FanOut(tpls, args.countries)
                    kitt == Path(g.dir, KITT_YML)
                IN  /\ g.created = out
                    /\ {p \in DOMAIN fs \ DOMAIN snap : p.d = g.dir}
                           = {Path(g.dir, out[i]) : i \in 1..Len(out)}
                    /\ Cardinality({p \in DOMAIN fs \ DOMAIN snap : p.d = g.dir})
                           = Len(tpls) * Len(args.countries)
                    /\ (Exists(snap, kitt) /\ post_build(snap[kitt]).t = "seq") =>
                           /\ TasksOf(fs[kitt]) =
                                  TasksOf(snap[kitt])
                                      \o [i \in 1..Len(out) |-> deploy_task(g.dir, out[i])]
                           /\ Len(TasksOf(fs[kitt])) =
                                  Len(TasksOf(snap[kitt])) + Len(tpls) * Len(args.countries)

\* C10 witness: two templates and two keys gave four new files and four
\* new tasks in one directory.
C10_Witness ==
    /\ pc = "traversed"
    /\ ~args.dry_run
    /\ \E i \in 1..Len(generated) :
           /\ FanOutCase(generated[i].dir, args.countries)
           /\ Len(discover_templates(listdir(snap, generated[i].dir, rev))) = 2
           /\ Len(args.countries) = 2
           /\ Len(generated[i].created) = 4
           /\ Exists(snap, Path(generated[i].dir, KITT_YML))
           /\ post_build(snap[Path(generated[i].dir, KITT_YML)]).t = "seq"

\* the values of every entry named key, anywhere in a document
RECURSIVE ValuesOf(_, _)
ValuesOf(node, key) ==
    IF node.t = "map"
    THEN UNION {(IF node.e[i].k = key THEN {node.e[i].v} ELSE {})
                    \cup ValuesOf(node.e[i].v, key) : i \in 1..Len(node.e)}
    ELSE IF node.t = "seq"
    THEN UNION {ValuesOf(node.e[i], key) : i \in 1..Len(node.e)}
    ELSE {}

Returned(op) == call.op = op /\ ret # NoRet

\* C11 (as claimed): after fix_cluster_id with new id X the document has a
\* cluster_id field and it is the flow-style one-element sequence [X],
\* whether the original field was absent, a scalar or a longer sequence.
C11_ClusterIdInline ==
    Returned("fix_cluster_id") =>
        ValuesOf(ret.n, "cluster_id") = {FlowSeq(<<Str(call.cluster_id)>>)}

\* the old values of the change records of a field
OldValues(ch, field) == {ch[i].old : i \in {j \in 1..Len(ch) : ch[j].field = field}}

\* a field kept as it was: still a value of that key, and in no change record
Skipped(key, v) == v \in ValuesOf(ret.n, key) /\ v \notin OldValues(ret.ch, key)

\* C12 (as claimed): a rule that meets a field without the shape it expects
\* (cluster_id not a sequence, namespace not a scalar, labels not a
\* mapping, cnames with an element that is not a string) leaves the field
\* as it is, records no change for it and does not raise.
C12_ShapeMismatchSkipped ==
    ret # NoRet =>
        /\ call.op = "fix_cluster_id" =>
               \A v \in ValuesOf(call.node, "cluster_id") :
                   v.t # "seq" => Skipped("cluster_id", v)
        /\ call.op = "fix_namespace" =>
               \A v \in ValuesOf(call.node, "namespace") :
                   v.t # "str" => Skipped("namespace", v)
        /\ call.op = "fix_country" =>
               \A v \in ValuesOf(call.node, "labels") :
                   v.t # "map" => Skipped("labels", v)
        /\ call.op = "fix_cnames" =>
               /\ ~ret.raised
               /\ \A v \in ValuesOf(call.node, "cnames") :
                      (v.t = "seq" /\ \E i \in 1..Len(v.e) : v.e[i].t # "str") =>
                          Skipped("cnames", v)

\* the templates of a directory as they were when the run started
TemplatesOf(dir) == {p \in DOMAIN snap : p.d = dir /\ is_template(p.n)}

\* C13: when a non-dry traversal has returned, every file it created in a
\* directory holds what the four fixes make of an unmodified template of
\* that directory for one of the keys (whatever keys came before it), and
\* every template has the content it had before the run.
C13_TemplateIsolation ==
    (pc = "traversed" /\ ~args.dry_run) =>
        /\ \A p \in DOMAIN fs \ DOMAIN snap :
               ~in_backup(p) =>
                   \E tpl \in TemplatesOf(p.d) :
                       \E j \in 1..Len(args.countries) :
                           /\ dest_name(tpl.n, args.countries[j]) = p.n
                           /\ fs[p] = apply_fixes(snap[tpl], p.n, args.countries[j], args).n
        /\ \A p \in DOMAIN snap : is_template(p.n) => Exists(fs, p) /\ fs[p] = snap[p]

\* C13 witness: one template with a cell000 host name gave a file for jp
\* and then a file for de, and the second file names de.
C13_Witness ==
    /\ pc = "traversed"
    /\ ~args.dry_run
    /\ args.countries = <<"jp", "de">>
    /\ \E tpl \in DOMAIN snap :
           /\ is_template(tpl.n)
           /\ ValuesOf(snap[tpl], "cnames") # {}
           /\ Path(tpl.d, dest_name(tpl.n, "jp")) \in DOMAIN fs \ DOMAIN snap
           /\ Path(tpl.d, dest_name(tpl.n, "de")) \in DOMAIN fs \ DOMAIN snap
           /\ fs[Path(tpl.d, dest_name(tpl.n, "de"))]
                  # fs[Path(tpl.d, dest_name(tpl.n, "jp"))]

Elems(s) == {s[i] : i \in 1..Len(s)}

\* C14 (as claimed): discover_templates returns the qualifying names in
\* sorted order, the same sequence for every order of the same listing.
C14_CatalogSorted ==
    Returned("discover_templates") =>
        /\ \A i, j \in 1..Len(ret.names) : i < j => Less(ret.names[i], ret.names[j])
        /\ ret.names = discover_templates(Listing(Elems(call.files), FALSE))

\* the test of the claim on one file name
Qualifies(f) ==
    /\ f[1] \in {"kitt", "kittens"}
    /\ f[Len(f)] = "yml" /\ Len(f) > 1
    /\ \/ \E i \in 1..(Len(f) - 1) : f[i] = "us-wm" /\ f[i + 1] \in {"primary", "secondary"}
       \/ f = <<"kitt", "primary", "yml">>
       \/ f = <<"kitt", "secondary", "yml">>
       \/ \E i \in 1..Len(f) : f[i] = "cell000"

\* C15: discover_templates returns exactly the names of the listing that
\* start with kitt, end with .yml and contain us-wm.primary,
\* us-wm.secondary or cell000 or are kitt.primary.yml or
\* kitt.secondary.yml, each once; kitt.yml is never among them.
C15_CatalogPredicate ==
    Returned("discover_templates") =>
        /\ Elems(ret.names) = {f \in Elems(call.files) : Qualifies(f)}
        /\ Len(ret.names) = Cardinality(Elems(ret.names))
        /\ KITT_YML \notin Elems(ret.names)

\* C15 witness: of kitt.yml, a cell000 name that is not YAML and a
\* template, the template alone was selected.
C15_Witness ==
    /\ Returned("discover_templates")
    /\ Elems(call.files) = {KITT_YML, <<"kitt", "cell000", "json">>, TPL_US_SECONDARY}
    /\ ret.names = <<TPL_US_SECONDARY>>

\* C16 (as claimed): a rollback that found a backup store ends with its
\* completion report, every readable backup entry restored and no
\* manifest-listed file left, also when one backup entry cannot be read.
C16_RollbackContinues ==
    (hist[2] = "rollback" /\ outcome # "no-backup") =>
        /\ outcome = "completed"
        /\ \A b \in Baks(fs) :
               fs[b] # Unreadable => Exists(fs, original(b)) /\ fs[original(b)] = fs[b]
        /\ Exists(fs, MANIFEST) =>
               \A i \in 1..Len(fs[MANIFEST].files) : ~Exists(fs, fs[MANIFEST].files[i])

\* C17 (as claimed): a non-dry run over a repository with a template that
\* is not YAML does not raise, generates nothing from that template, and
\* for every other template writes the file of each key and, where the
\* directory's kitt.yml has a task list, registers the files it created.
C17_ParseFailureIsLocal ==
    (/\ hist[2] \in {"run", "crashed"}
     /\ ~args.dry_run
     /\ \E tpl \in DOMAIN snap : is_template(tpl.n) /\ snap[tpl] = Unparsable) =>
        /\ outcome # "raised"
        /\ \A tpl \in {p \in DOMAIN snap : ~in_backup(p) /\ is_template(p.n)} :
               \A j \in 1..Len(args.countries) :
                   LET dest == Path(tpl.d, dest_name(tpl.n, args.countries[j]))
                       kitt == Path(tpl.d, KITT_YML)
                   IN  IF snap[tpl] = Unparsable
                       THEN Exists(fs, dest) => Exists(snap, dest)
                       ELSE /\ Exists(fs, dest)
                            /\ (/\ ~Exists(snap, dest)
                                /\ Exists(snap, kitt)
                                /\ post_build(snap[kitt]).t = "seq") =>
                                   kittFilePath(tpl.d, dest.n) \in Elems(RefsOf(fs[kitt]))

\* C18: a rollback started when nothing is under .kitt-backup leaves every
\* file as it is and ends without the completion report.
C18_RollbackWithoutBackup ==
    [][(hist'[2] = "rollback" /\ ops' = ops + 1 /\ ~\E p \in DOMAIN fs : in_backup(p))
          => (fs' = fs /\ outcome' = "no-backup")]_vars

\* C18 witness: a rollback of a repository that has files but no backup
\* store ended with the error.
C18_Witness ==
    /\ hist[2] = "rollback"
    /\ outcome = "no-backup"
    /\ DOMAIN fs # {}
    /\ ~\E p \in DOMAIN fs : in_backup(p)

\* the directories where the latest run generated files and which had no
\* kitt.yml when it started
Unregistered ==
    {generated[i] : i \in {j \in 1..Len(generated) :
        /\ generated[j].created # <<>>
        /\ ~Exists(snap, Path(generated[j].dir, KITT_YML))}}

\* C19: a non-dry run that generates files in a directory without
\* kitt.yml does not raise, leaves the directory without kitt.yml and
\* without a backup entry for it, has written every generated file and
\* listed it in CREATED_FILES, and once the run has ended the manifest
\* lists it.
C19_MissingDescriptorIsNoOp ==
    (hist[2] = "run") =>
        /\ outcome # "raised"
        /\ \A g \in Unregistered :
               /\ ~Exists(fs, Path(g.dir, KITT_YML))
               /\ ~Exists(fs, backup_path(Path(g.dir, KITT_YML)))
               /\ \A f \in Elems(g.created) :
                      /\ Exists(fs, Path(g.dir, f))
                      /\ Path(g.dir, f) \in Elems(CREATED_FILES)
                      /\ pc = "idle" =>
                             /\ Exists(fs, MANIFEST)
                             /\ Path(g.dir, f) \in Elems(fs[MANIFEST].files)

\* C19 witness: a run has ended that generated a file in a directory
\* without kitt.yml.
C19_Witness ==
    /\ hist[2] = "run"
    /\ pc = "idle"
    /\ outcome = "completed"
    /\ Unregistered # {}

\* C20 (as claimed): after a non-dry traversal, in every directory that
\* had a kitt.yml and where files were generated, kitt.yml has a task
\* list under build.postBuild and it references every generated file.
C20_TaskListCreated ==
    (pc = "traversed" /\ ~args.dry_run) =>
        \A i \in 1..Len(generated) :
            LET g == generated[i]
                kitt == Path(g.dir, KITT_YML)
            IN  (g.created # <<>> /\ Exists(snap, kitt)) =>
                    /\ post_build(fs[kitt]).t = "seq"
                    /\ \A f \in Elems(g.created) :
                           kittFilePath(g.dir, f) \in Elems(RefsOf(fs[kitt]))
\* whether a rule matches the entry (k, v)
Matches(rule, k, v) ==
    IF rule = "fix_cluster_id" THEN k = "cluster_id"
    ELSE IF rule = "fix_namespace" THEN k = "namespace"
    ELSE IF rule = "fix_country" THEN k = "labels" /\ v.t = "map" /\ HasKey(v, "ccm.country")
    ELSE k = "cnames" /\ v.t = "seq"

\* what a rule rewrites in a matched value v: the value, the country label,
\* the elements that contain the marker
Targets(rule, v) ==
    IF rule \in {"fix_cluster_id", "fix_namespace"} THEN {v}
    ELSE IF rule = "fix_country" THEN {Get(v, "ccm.country")}
    ELSE {v.e[i] : i \in {j \in 1..Len(v.e) : v.e[j].t = "str" /\ Contains(v.e[j].s, "cell000")}}

\* the targets a walker reaches that descends into every sequence element
\* and every entry that does not match, and into no matched value
RECURSIVE TerminalTargets(_, _)
TerminalTargets(rule, node) ==
    IF node.t = "map"
    THEN UNION {IF Matches(rule, node.e[i].k, node.e[i].v)
                THEN Targets(rule, node.e[i].v)
                ELSE TerminalTargets(rule, node.e[i].v) : i \in 1..Len(node.e)}
    ELSE IF node.t = "seq"
    THEN UNION {TerminalTargets(rule, node.e[i]) : i \in 1..Len(node.e)}
    ELSE {}

FieldOf(rule) ==
    IF rule = "fix_cluster_id" THEN "cluster_id"
    ELSE IF rule = "fix_namespace" THEN "namespace"
    ELSE IF rule = "fix_country" THEN "ccm.country"
    ELSE "cnames"

\* C21 (as claimed): each of the four rules reports exactly the values it
\* reaches by descending into sequence elements and non-matching entries
\* and never into a matched value: a key nested inside a matched value is
\* neither rewritten nor reported.
C21_MatchedValuesTerminal ==
    (ret # NoRet /\ call.op \in {"fix_cluster_id", "fix_namespace", "fix_country",
                                  "fix_cnames"} /\ ~ret.raised) =>
        OldValues(ret.ch, FieldOf(call.op)) = TerminalTargets(call.op, call.node)
StringSeq(v) == v.t = "seq" /\ \A i \in 1..Len(v.e) : v.e[i].t = "str"

\* one cnames sequence of strings with the marker replaced element by element
Substituted(v, country) ==
    [v EXCEPT !.e = [i \in 1..Len(v.e) |-> Str(Replace(v.e[i].s, "cell000", country))]]

Marked(c) == c.t = "str" /\ Contains(c.s, "cell000")

\* a cnames sequence with the marker replaced in each string element
SubstitutedStrings(v, country) ==
    [v EXCEPT !.e = [i \in 1..Len(v.e) |->
                        IF Marked(v.e[i]) THEN Str(Replace(v.e[i].s, "cell000", country))
                        ELSE v.e[i]]]

\* the cnames sequences of a document that are not inside the value of
\* another cnames sequence, as a set, and their marked elements in
\* document order
RECURSIVE OuterNames(_)
OuterNames(node) ==
    IF node.t = "map"
    THEN UNION {IF node.e[i].k = "cnames" /\ node.e[i].v.t = "seq" THEN {node.e[i].v}
                ELSE OuterNames(node.e[i].v) : i \in 1..Len(node.e)}
    ELSE IF node.t = "seq"
    THEN UNION {OuterNames(node.e[i]) : i \in 1..Len(node.e)}
    ELSE {}

RECURSIVE OuterMarked(_)
RECURSIVE OuterMarkedFrom(_, _)
OuterMarkedFrom(node, i) ==
    IF i > Len(node.e) THEN <<>>
    ELSE (IF node.t = "seq" THEN OuterMarked(node.e[i])
          ELSE IF node.e[i].k = "cnames" /\ node.e[i].v.t = "seq"
          THEN SelectSeq(node.e[i].v.e, Marked)
          ELSE OuterMarked(node.e[i].v))
             \o OuterMarkedFrom(node, i + 1)

OuterMarked(node) ==
    IF node.t \in {"map", "seq"} THEN OuterMarkedFrom(node, 1) ELSE <<>>

Existing ==
    {p \in DOMAIN snap :
        /\ ~in_backup(p)
        /\ \E tpl \in TemplatesOf(p.d) :
               \E j \in 1..Len(args.countries) :
                   dest_name(tpl.n, args.countries[j]) = p.n}

\* how often a task list references a path
RefCount(data, ref) == Cardinality({i \in 1..Len(RefsOf(data)) : RefsOf(data)[i] = ref})

\* C23: when a traversal has returned, a destination that was on disk
\* when the run started has the content it had, is not in the list
\* create_country_files returned for its directory, is not in
\* CREATED_FILES, has no change record (unless a file of that name was
\* generated in another directory: a record names the file, not the
\* directory) and is referenced by kitt.yml as often as before.  A
\* destination that a non-dry run has written itself and reaches again is
\* not listed a second time.
C23_ExistingDestinationLeftAlone ==
    (pc = "traversed") =>
        /\ ~args.dry_run =>
               /\ Injective(CREATED_FILES)
               /\ \A i \in 1..Len(generated) : Injective(generated[i].created)
        /\ \A p \in Existing :
                /\ Exists(fs, p) /\ fs[p] = snap[p]
                /\ p \notin Elems(CREATED_FILES)
                /\ \A i \in 1..Len(generated) :
                       generated[i].dir = p.d => p.n \notin Elems(generated[i].created)
                /\ \A r \in Elems(CHANGE_REPORT) :
                       r.file = p.n =>
                           \E i \in 1..Len(generated) :
                               generated[i].dir # p.d /\ p.n \in Elems(generated[i].created)
                /\ Exists(snap, Path(p.d, KITT_YML)) =>
                       RefCount(fs[Path(p.d, KITT_YML)], kittFilePath(p.d, p.n))
                           = RefCount(snap[Path(p.d, KITT_YML)], kittFilePath(p.d, p.n))

\* C23 witness: a non-dry run for jp and de in a directory where the file
\* for jp was on disk: the file for de was generated and registered, the
\* one for jp was not.
C23_Witness ==
    /\ pc = "traversed"
    /\ ~args.dry_run
    /\ args.countries = <<"jp", "de">>
    /\ \E p \in Existing :
           \E i \in 1..Len(generated) :
               /\ generated[i].dir = p.d
               /\ generated[i].created # <<>>
               /\ Exists(snap, Path(p.d, KITT_YML))
               /\ RefsOf(fs[Path(p.d, KITT_YML)]) # RefsOf(snap[Path(p.d, KITT_YML)])
Markers == {"cell000", "us-wm"}

\* T with every marker replaced by K
MarkersReplaced(T, K) == [i \in 1..Len(T) |-> IF T[i] \in Markers THEN K ELSE T[i]]

\* C24 (as claimed): the destination for template T and key K is T with
\* every marker replaced by K if T has a marker, kitt.K.<T without its
\* kitt. prefix> if and only if T has none, and it is never T.
C24_DestinationNaming ==
    Returned("dest_name") =>
        /\ ret.name = IF \E i \in 1..Len(call.tpl) : call.tpl[i] \in Markers
                      THEN MarkersReplaced(call.tpl, call.country)
                      ELSE <<"kitt", call.country>> \o Tail(call.tpl)
        /\ ret.name # call.tpl
\* the task the claim describes for file f of directory dir
ClaimedTask(dir, f) ==
    [t |-> "map",
     e |-> <<[k |-> "task",
              v |-> [t |-> "map",
                     e |-> <<[k |-> "name", v |-> [t |-> "str", s |-> <<"deployApp">>]],
                             [k |-> "kittFilePath",
                              v |-> [t |-> "str", s |-> <<dir[Len(dir)], "/">> \o f]],
                             [k |-> "sync", v |-> [t |-> "bool", b |-> FALSE]],
                             [k |-> "executionScope",
                              v |-> [t |-> "str", s |-> <<"child">>]]>>]]>>]

\* C25: when a non-dry traversal has returned, in every directory where
\* files were generated and kitt.yml had a task list, the list is the old
\* list followed by one task per generated file, in the order of the
\* generated list, each with name deployApp, kittFilePath
\* <directory name>/<file name>, sync false and executionScope child.
C25_AppendedTaskShape ==
    (pc = "traversed" /\ ~args.dry_run) =>
        \A i \in 1..Len(generated) :
            LET g == generated[i]
                kitt == Path(g.dir, KITT_YML)
            IN  (/\ g.created # <<>>
                 /\ Exists(snap, kitt)
                 /\ post_build(snap[kitt]).t = "seq") =>
                    /\ Len(TasksOf(fs[kitt])) = Len(TasksOf(snap[kitt])) + Len(g.created)
                    /\ \A j \in 1..Len(g.created) :
                           TasksOf(fs[kitt])[Len(TasksOf(snap[kitt])) + j]
                               = ClaimedTask(g.dir, g.created[j])

\* C25 witness: two tasks were appended after a task that was there.
C25_Witness ==
    /\ pc = "traversed"
    /\ ~args.dry_run
    /\ \E i \in 1..Len(generated) :
           LET kitt == Path(generated[i].dir, KITT_YML)
           IN  /\ Len(generated[i].created) = 2
               /\ Exists(snap, kitt)
               /\ Len(TasksOf(snap[kitt])) = 1
               /\ Len(TasksOf(fs[kitt])) = 3
\* C26 (as claimed): when a rollback has completed after two or more
\* non-dry runs, the first of which started without a backup store, no
\* file that any of those runs created is left and every kitt.yml has the
\* content it had before the first of them.
C26_RollbackCoversEveryRun ==
    (/\ hist = <<"run", "rollback">>
     /\ outcome = "completed"
     /\ base # NoBase
     /\ snap # base) =>
        /\ \A p \in DOMAIN fs : ~in_backup(p) => Exists(base, p)
        /\ \A p \in Kitts(base) : Exists(fs, p) /\ fs[p] = base[p]
\* the entries of a mapping other than the one named key, in order
Others(m, key) == SelectSeq(m.e, LAMBDA en : en.k # key)

\* the keys of a mapping, in order
KeysOf(m) == [i \in 1..Len(m.e) |-> m.e[i].k]

\* new is old with tasks added at the end of build.postBuild and no other
\* difference
OnlyAppended(old, new) ==
    /\ new.t = "map"
    /\ KeysOf(new) = KeysOf(old)
    /\ Others(new, "build") = Others(old, "build")
    /\ Get(new, "build").t = "map"
    /\ KeysOf(Get(new, "build")) = KeysOf(Get(old, "build"))
    /\ Others(Get(new, "build"), "postBuild") = Others(Get(old, "build"), "postBuild")
    /\ post_build(new).t = "seq"
    /\ post_build(new).flow = post_build(old).flow
    /\ IsPrefix(post_build(old).e, post_build(new).e)

\* C27: a traversal, which calls update_pipeline at most once for a
\* kitt.yml, leaves every kitt.yml either as it was or with its old task
\* list as a prefix of the new one, every old task unchanged and in place,
\* and every other entry of the descriptor unchanged.
C27_RegistrationOnlyAppends ==
    (pc = "traversed") =>
        \A kitt \in Kitts(snap) :
            /\ Exists(fs, kitt)
            /\ \/ fs[kitt] = snap[kitt]
               \/ /\ post_build(snap[kitt]).t = "seq"
                  /\ OnlyAppended(snap[kitt], fs[kitt])

\* C27 witness: tasks were appended to a kitt.yml that had a task and
\* entries besides the task list.
C27_Witness ==
    /\ pc = "traversed"
    /\ \E kitt \in Kitts(snap) :
           /\ Len(TasksOf(snap[kitt])) = 1
           /\ Len(TasksOf(fs[kitt])) > 1
           /\ Others(snap[kitt], "build") # <<>>
           /\ Others(Get(snap[kitt], "build"), "postBuild") # <<>>
\* C28 (as claimed, first part): at most one scheduler loop thread is live
\* at any time.
C28_SingleSchedulerLoop == Cardinality(LiveLoops) <= 1
\* C28 (second part): once schedule_running stays false, with no call in
\* the middle of start_scheduler, every loop thread exits.
C28_LoopsExitAfterStop ==
    (<>[](~schedule_running /\ \A c \in Callers : callers[c] = "idle")) => <>[](LiveLoops = {})
====
